---- MODULE Spec2Model ----
(***************************************************************************)
(* WorldBuilder: the entry / tag data-access layer of src/backend_logic.py *)
(* over the schema of src/Scripts/Libs/database_schema.py.                 *)
(*                                                                         *)
(* One world database is modelled: the category tables, the tags table and *)
(* the world table.  Every function of backend_logic.py is an operator     *)
(* that maps the database (and the call's arguments) to the database after *)
(* the call and the value the caller receives; one action per function     *)
(* applies it.  Strings whose content the code inspects (the tags string,  *)
(* entry_location) are sequences of one-character tokens, a table name     *)
(* being one token.                                                        *)
(***************************************************************************)
EXTENDS Integers, Sequences, FiniteSets

VARIABLES tables, tags, world, lastCall, nops

vars == <<tables, tags, world, lastCall, nops>>

(***************************************************************************)
(* Bounds of the model.                                                    *)
(***************************************************************************)
\* number of write calls (add_data_to_table, remove_entry, add_world_map)
\* in one session
MaxOps == 4

\* entry names the caller types
Names == {"a", "b"}

\* table names the caller passes: two record categories, one with and one
\* without image_data, and a name the registry does not know
UsedTables == {"items", "quests", "bogus"}

(***************************************************************************)
(* Values.                                                                 *)
(***************************************************************************)
\* SQL NULL / Python None in a column; differs from every string
NULL == <<"NULL">>

\* a string the code does not look into
Str(t) == <<t>>

\* the name of the world created by create_database
WorldName == "Aldara"

\* the values returned to callers
NoneValue == [kind |-> "None"]
DictValue(row) == [kind |-> "dict", value |-> row]
ListValue(seq) == [kind |-> "list", value |-> seq]

(***************************************************************************)
(* Schema Registry (database_schema.py).                                   *)
(***************************************************************************)
\* columns of the mapped classes, the key column "id" included
PlainColumns == <<"id", "name", "description", "tags", "image_data">>
StatsColumns == <<"id", "name", "description", "stats", "tags", "image_data">>

table_classes ==
    [ tags              |-> <<"id", "entry_name", "entry_location">>,
      world             |-> <<"name", "world_map">>,
      planes            |-> PlainColumns,
      continents        |-> PlainColumns,
      regions           |-> PlainColumns,
      countries         |-> PlainColumns,
      cities            |-> PlainColumns,
      historical_events |-> PlainColumns,
      religions         |-> PlainColumns,
      characters        |-> StatsColumns,
      deities           |-> StatsColumns,
      enemies           |-> StatsColumns,
      items             |-> PlainColumns,
      quests            |-> <<"id", "name", "description", "tags">> ]

\* dict.get on an absent key
NoClass == "None"

\* a lookup that falls back to a default class for an unknown name
get_table_class_default(table_name) ==
    IF table_name \in DOMAIN table_classes THEN table_name ELSE "items"

get_table_class(table_name) ==
    IF table_name \in DOMAIN table_classes THEN table_name ELSE NoClass

Range(s) == {s[i] : i \in DOMAIN s}

columns(table_class) == Range(table_classes[table_class])

excluded_tables == {"world", "tags"}

\* the record categories: every table but the structural ones
Categories == DOMAIN table_classes \ excluded_tables

(***************************************************************************)
(* Strings the code takes apart or puts together.                          *)
(***************************************************************************)
\* str.split() without its separator: the string in one piece
split_no_separator(s, sep) == <<s>>

\* a split that drops the empty pieces
RECURSIVE split_skip_empty(_, _)
split_skip_empty(s, sep) ==
    IF s = << >> THEN << >>
    ELSE IF \A i \in DOMAIN s : s[i] # sep
    THEN <<s>>
    ELSE LET k == CHOOSE i \in DOMAIN s :
                      s[i] = sep /\ \A j \in 1..(i - 1) : s[j] # sep
         IN  (IF k = 1 THEN << >> ELSE <<SubSeq(s, 1, k - 1)>>)
                 \o split_skip_empty(SubSeq(s, k + 1, Len(s)), sep)

\* str.split(sep) for a one-character separator: the pieces between the
\* separators, so a string with k separators gives k + 1 pieces and the
\* empty string gives one empty piece
RECURSIVE split(_, _)
split(s, sep) ==
    IF \A i \in DOMAIN s : s[i] # sep
    THEN <<s>>
    ELSE LET k == CHOOSE i \in DOMAIN s :
                      s[i] = sep /\ \A j \in 1..(i - 1) : s[j] # sep
         IN  <<SubSeq(s, 1, k - 1)>> \o split(SubSeq(s, k + 1, Len(s)), sep)

Digit(d) ==
    CASE d = 0 -> "0" [] d = 1 -> "1" [] d = 2 -> "2" [] d = 3 -> "3"
      [] d = 4 -> "4" [] d = 5 -> "5" [] d = 6 -> "6" [] d = 7 -> "7"
      [] d = 8 -> "8" [] d = 9 -> "9"

\* the decimal text of a non-negative integer, as an f-string writes it
RECURSIVE str_int(_)
str_int(n) ==
    IF n < 10 THEN <<Digit(n)>> ELSE str_int(n \div 10) \o <<Digit(n % 10)>>

\* the location written with the id before the table name
format_location_id_first(table_name, last_id) ==
    str_int(last_id) \o <<"/", table_name>>

\* f'{table_name}/{last_id}'
format_location(table_name, last_id) ==
    <<table_name, "/">> \o str_int(last_id)

\* the text of a piece of entry_location as a table name: one token, and a
\* piece that is no single token is no name of the registry
piece_name(piece) == IF Len(piece) = 1 THEN piece[1] ELSE ""

(***************************************************************************)
(* Tables.  A table is the set of its rows; SQLite returns the rows of an  *)
(* unordered query in rowid order.                                         *)
(***************************************************************************)
Max(S) == CHOOSE x \in S : \A y \in S : y <= x
Min(S) == CHOOSE x \in S : \A y \in S : x <= y

ids(rows) == {r.id : r \in rows}

\* a key that takes the least id no row of the table uses
next_rowid_least_unused(rows) ==
    Min({i \in 1..(Cardinality(rows) + 1) : i \notin ids(rows)})

\* INTEGER PRIMARY KEY without AUTOINCREMENT: one more than the greatest
\* rowid in the table, 1 in an empty table
next_rowid(rows) == IF rows = {} THEN 1 ELSE Max(ids(rows)) + 1

\* Query.first(): the matching row of least rowid, or None
NoRow == [kind |-> "None"]
first(rows) ==
    IF rows = {} THEN NoRow
    ELSE CHOOSE r \in rows : r.id = Min(ids(rows))

\* Query.all(): the rows in rowid order
RECURSIVE all(_)
all(rows) ==
    IF rows = {} THEN << >>
    ELSE LET r == first(rows) IN <<r>> \o all(rows \ {r})

\* filter_by(name=...)
filter_by_name(rows, name) == {r \in rows : r.name = name}

\* filter_by(entry_name=...)
filter_by_entry_name(rows, entry_name) == {r \in rows : r.entry_name = entry_name}

\* filter_by(id=entry_id) with entry_id a text: SQLite compares the text
\* with the integer column by its integer affinity
filter_by_id(rows, entry_id) == {r \in rows : str_int(r.id) = entry_id}

\* main_table_class(**data_dict): the row an instance is stored as, the
\* columns the dictionary leaves out being NULL
new_entry(table_class, data_dict, id) ==
    [c \in columns(table_class) |->
        IF c = "id" THEN id
        ELSE IF c \in DOMAIN data_dict THEN data_dict[c] ELSE NULL]

\* an update that rebuilds the row from the dictionary, clearing the
\* columns the dictionary leaves out
updated_entry_clears(existing_entry, data_dict) ==
    [c \in DOMAIN existing_entry |->
        IF c = "id" THEN existing_entry[c]
        ELSE IF c \in DOMAIN data_dict THEN data_dict[c] ELSE NULL]

\* setattr(existing_entry, key, value) for every key of the dictionary:
\* a key that is no column leaves the stored row alone
updated_entry(existing_entry, data_dict) ==
    [c \in DOMAIN existing_entry |->
        IF c \in DOMAIN data_dict THEN data_dict[c] ELSE existing_entry[c]]

\* tag_table(entry_name=..., entry_location=...)
tag_entry_row(id, entry_name, entry_location) ==
    [id |-> id, entry_name |-> entry_name, entry_location |-> entry_location]

\* a tag phase that writes one row for the record, whatever its labels
add_tag_entries_once(tag_rows, labels, entry_name, entry_location) ==
    tag_rows \cup {tag_entry_row(next_rowid(tag_rows), entry_name, entry_location)}

\* the loop over the labels: one row per label, each with the next rowid
RECURSIVE add_tag_entries(_, _, _, _)
add_tag_entries(tag_rows, labels, entry_name, entry_location) ==
    IF labels = << >> THEN tag_rows
    ELSE add_tag_entries(
            tag_rows \cup {tag_entry_row(next_rowid(tag_rows), entry_name, entry_location)},
            Tail(labels), entry_name, entry_location)

(***************************************************************************)
(* The database and the outcome of a call.                                 *)
(***************************************************************************)
\* the database of one world: tables[c] the rows of category c, tags the
\* rows of the tags table, world the rows of the world table in the order
\* they were inserted
Database(t, g, w) == [tables |-> t, tags |-> g, world |-> w]

\* what a call leaves and hands back: the database after it, the path the
\* code took, whether an exception ended the try block (aborted), whether
\* an exception reached the caller (raised) and the value returned
Outcome(db, path, aborted, raised, ret) ==
    [db |-> db, path |-> path, aborted |-> aborted, raised |-> raised, ret |-> ret]

\* the try block ran to its end; the function returns ret
Returned(db, path, ret) == Outcome(db, path, FALSE, FALSE, ret)

\* except Exception: the traceback is printed, session.rollback() drops the
\* uncommitted changes (db is the database as last committed) and the
\* function falls off its end, returning None
Caught(db, path, ret) == Outcome(db, path, TRUE, FALSE, ret)

\* an exception no handler of the function catches
Uncaught(db, path) == Outcome(db, path, TRUE, TRUE, NoneValue)

(***************************************************************************)
(* add_data_to_table (upsertByName).  update_data is the answer of the     *)
(* "Entry already exists" dialog, consulted on the update path only.       *)
(***************************************************************************)
\* the insert path on a record category, lines 295-332
insert_entry(db, table_name, main_table_class, data_dict) ==
    LET rows      == db.tables[main_table_class]
        entry     == new_entry(main_table_class, data_dict, next_rowid(rows))
        committed == Database([db.tables EXCEPT ![main_table_class] = rows \cup {entry}],
                              db.tags, db.world)
        last_id   == Max(ids(committed.tables[main_table_class]))
    IN  IF ~(DOMAIN data_dict \subseteq columns(main_table_class))
        THEN \* TypeError from the constructor: nothing was added
             Caught(db, "bad_keyword", NoneValue)
        ELSE IF "tags" \notin DOMAIN data_dict
        THEN \* KeyError at data_dict['tags'], after the record's commit
             Caught(committed, "insert_tags_failed", NoneValue)
        ELSE IF data_dict["tags"] = NULL
        THEN \* AttributeError at None.split, after the record's commit
             Caught(committed, "insert_tags_failed", NoneValue)
        ELSE Returned(
                Database(committed.tables,
                         add_tag_entries(db.tags, split(data_dict["tags"], ","),
                                         data_dict["name"],
                                         format_location(table_name, last_id)),
                         db.world),
                "insert", NoneValue)

\* an update path that runs the tag loop of the insert path as well
update_entry_retags(db, main_table_class, existing_entry, data_dict, update_data) ==
    IF update_data
    THEN Returned(
            Database([db.tables EXCEPT ![main_table_class] =
                         (@ \ {existing_entry})
                             \cup {updated_entry(existing_entry, data_dict)}],
                     add_tag_entries(db.tags, <<"t">>, data_dict["name"],
                                     format_location(main_table_class, existing_entry.id)),
                     db.world),
            "update", NoneValue)
    ELSE Returned(db, "declined", NoneValue)

\* an update path that does not look at the answer of the dialog
update_entry_unasked(db, main_table_class, existing_entry, data_dict, update_data) ==
    Returned(
        Database([db.tables EXCEPT ![main_table_class] =
                     (@ \ {existing_entry})
                         \cup {updated_entry(existing_entry, data_dict)}],
                 db.tags, db.world),
        "update", NoneValue)

\* the update path on a record category, lines 273-292
update_entry(db, main_table_class, existing_entry, data_dict, update_data) ==
    IF update_data
    THEN Returned(
            Database([db.tables EXCEPT ![main_table_class] =
                         (@ \ {existing_entry})
                             \cup {updated_entry(existing_entry, data_dict)}],
                     db.tags, db.world),
            "update", NoneValue)
    ELSE Returned(db, "declined", NoneValue)

\* table_name 'world': the class has a name but no id and no tags
add_data_to_world(db, data_dict, update_data) ==
    LET found == {i \in DOMAIN db.world : db.world[i].name = data_dict["name"]}
    IN  IF found # {}
        THEN IF update_data
             THEN Returned(
                     Database(db.tables, db.tags,
                              [db.world EXCEPT ![Min(found)] =
                                  updated_entry(@, data_dict)]),
                     "update", NoneValue)
             ELSE Returned(db, "declined", NoneValue)
        ELSE IF ~(DOMAIN data_dict \subseteq columns("world"))
        THEN Caught(db, "bad_keyword", NoneValue)
        ELSE \* the row is committed, then World.id raises AttributeError
             Caught(Database(db.tables, db.tags,
                             Append(db.world, [c \in columns("world") |->
                                 IF c \in DOMAIN data_dict THEN data_dict[c] ELSE NULL])),
                    "insert_tags_failed", NoneValue)

\* add_data_to_table without the lookup of the existing entry
add_data_to_table_no_lookup(db, table_name, data_dict, update_data) ==
    LET main_table_class == get_table_class(table_name)
    IN  IF main_table_class \notin Categories
        THEN Caught(db, "no_class", NoneValue)
        ELSE insert_entry(db, table_name, main_table_class, data_dict)

add_data_to_table(db, table_name, data_dict, update_data) ==
    LET main_table_class == get_table_class(table_name)
    IN  IF main_table_class = NoClass
        THEN \* session.query(None) raises ArgumentError
             Caught(db, "no_class", NoneValue)
        ELSE IF "name" \notin columns(main_table_class)
        THEN \* filter_by(name=...) on the Tag class raises
             Caught(db, "no_class", NoneValue)
        ELSE IF main_table_class = "world"
        THEN add_data_to_world(db, data_dict, update_data)
        ELSE LET existing_entry ==
                     first(filter_by_name(db.tables[main_table_class], data_dict["name"]))
             IN  IF existing_entry # NoRow
                 THEN update_entry(db, main_table_class, existing_entry,
                                   data_dict, update_data)
                 ELSE insert_entry(db, table_name, main_table_class, data_dict)

(***************************************************************************)
(* remove_entry (deleteByName).                                            *)
(***************************************************************************)
\* a delete without its filter: every row of the table goes
remove_entry_unfiltered(db, table_name, entry_name) ==
    LET main_table_class == get_table_class(table_name)
    IN  IF main_table_class \notin Categories
        THEN Caught(db, "no_class", NoneValue)
        ELSE IF db.tables[main_table_class] = {}
        THEN Returned(db, "not_found", NoneValue)
        ELSE Returned(
                Database([db.tables EXCEPT ![main_table_class] = {}],
                         db.tags, db.world),
                "delete", NoneValue)

\* a delete that also removes the tag rows of the deleted name
remove_entry_cascade(db, table_name, entry_name) ==
    LET main_table_class == get_table_class(table_name)
    IN  IF main_table_class \notin Categories
        THEN Caught(db, "no_class", NoneValue)
        ELSE LET entry_to_delete ==
                     first(filter_by_name(db.tables[main_table_class], entry_name))
             IN  IF entry_to_delete # NoRow
                 THEN Returned(
                         Database([db.tables EXCEPT ![main_table_class] =
                                      @ \ {entry_to_delete}],
                                  db.tags \ filter_by_entry_name(db.tags, entry_name),
                                  db.world),
                         "delete", NoneValue)
                 ELSE Returned(db, "not_found", NoneValue)

remove_entry(db, table_name, entry_name) ==
    LET main_table_class == get_table_class(table_name)
    IN  IF main_table_class = NoClass \/ "name" \notin columns(main_table_class)
        THEN Caught(db, "no_class", NoneValue)
        ELSE IF main_table_class = "world"
        THEN LET found == {i \in DOMAIN db.world : db.world[i].name = entry_name}
             IN  IF found = {} THEN Returned(db, "not_found", NoneValue)
                 ELSE Returned(
                         Database(db.tables, db.tags,
                                  SubSeq(db.world, 1, Min(found) - 1)
                                      \o SubSeq(db.world, Min(found) + 1, Len(db.world))),
                         "delete", NoneValue)
        ELSE LET entry_to_delete ==
                     first(filter_by_name(db.tables[main_table_class], entry_name))
             IN  IF entry_to_delete # NoRow
                 THEN Returned(
                         Database([db.tables EXCEPT ![main_table_class] =
                                      @ \ {entry_to_delete}],
                                  db.tags, db.world),
                         "delete", NoneValue)
                 ELSE Returned(db, "not_found", NoneValue)

(***************************************************************************)
(* get_entry_names (listNames).                                            *)
(***************************************************************************)
names_of(rows) == [i \in DOMAIN rows |-> rows[i].name]

\* a listing that stops at the first row of the table
get_entry_names_first_only(db, table_name) ==
    LET table_class == get_table_class(table_name)
    IN  IF table_class \notin Categories
        THEN Returned(db, "no_class", ListValue(<< >>))
        ELSE LET row == first(db.tables[table_class])
             IN  Returned(db, "names",
                     ListValue(IF row = NoRow THEN << >> ELSE <<row.name>>))

get_entry_names(db, table_name) ==
    LET table_class == get_table_class(table_name)
    IN  IF table_class = NoClass
        THEN Returned(db, "no_class", ListValue(<< >>))
        ELSE IF "name" \notin columns(table_class)
        THEN \* Tag.name raises AttributeError: except returns []
             Caught(db, "no_class", ListValue(<< >>))
        ELSE IF table_class = "world"
        THEN Returned(db, "names", ListValue(names_of(db.world)))
        ELSE Returned(db, "names", ListValue(names_of(all(db.tables[table_class]))))

(***************************************************************************)
(* get_data_for_entry (getRecord).                                         *)
(***************************************************************************)
\* the try block, lines 452-489: the value returned, or the exception
get_data_for_entry_try(db, entry_name) ==
    LET tag_entry == first(filter_by_entry_name(db.tags, entry_name))
    IN  IF tag_entry = NoRow
        THEN Returned(db, "no_tag", NoneValue)
        ELSE LET pieces == split(tag_entry.entry_location, "/")
             IN  IF Len(pieces) # 2
                 THEN \* ValueError unpacking the split
                      Uncaught(db, "bad_location")
                 ELSE LET table_class == get_table_class(piece_name(pieces[1]))
                          entry_id    == pieces[2]
                      IN  IF table_class = NoClass
                          THEN \* session.query(None) raises ArgumentError
                               Uncaught(db, "no_class")
                          ELSE IF "id" \notin columns(table_class)
                          THEN \* filter_by(id=...) on the World class raises
                               Uncaught(db, "no_class")
                          ELSE LET rows   == IF table_class = "tags" THEN db.tags
                                             ELSE db.tables[table_class]
                                   result == first(filter_by_id(rows, entry_id))
                               IN  IF result # NoRow
                                   THEN Returned(db, "found", DictValue(result))
                                   ELSE Returned(db, "no_record", NoneValue)

\* get_data_for_entry without its except block
get_data_for_entry_uncaught(db, entry_name) ==
    get_data_for_entry_try(db, entry_name)

\* except Exception, lines 492-498: the traceback is printed, None returned
get_data_for_entry(db, entry_name) ==
    LET t == get_data_for_entry_try(db, entry_name)
    IN  IF t.raised THEN Caught(db, t.path, NoneValue) ELSE t

(***************************************************************************)
(* add_world_map (setWorldMap) and veiw_world_map (getWorldMap).           *)
(***************************************************************************)
\* a map that is stored only while the row has none
add_world_map_keeps_first(db, image_data) ==
    IF db.world = << >>
    THEN Caught(db, "no_world", NoneValue)
    ELSE Returned(Database(db.tables, db.tags,
                           [db.world EXCEPT ![1].world_map =
                               IF @ = NULL THEN image_data ELSE @]),
                  "set", NoneValue)

add_world_map(db, image_data) ==
    IF db.world = << >>
    THEN \* entry is None: setting world_map raises AttributeError
         Caught(db, "no_world", NoneValue)
    ELSE Returned(Database(db.tables, db.tags,
                           [db.world EXCEPT ![1].world_map = image_data]),
                  "set", NoneValue)

veiw_world_map(db) ==
    IF db.world = << >>
    THEN \* entry is None: the except block prints and returns nothing
         Caught(db, "no_world", NoneValue)
    ELSE Returned(db, "get",
                  IF db.world[1].world_map = NULL THEN NoneValue
                  ELSE [kind |-> "bytes", value |-> db.world[1].world_map])

(***************************************************************************)
(* get_all_tags (allTagLabels), get_tag_location (locationOf),             *)
(* filter_tag_list_by_table (filterTagsByCategory), get_table_names        *)
(* (listCategories).                                                       *)
(***************************************************************************)
entry_names_of(rows) == [i \in DOMAIN rows |-> rows[i].entry_name]

\* a query for the distinct entry names: each name once, in the order of
\* its first row
get_all_tags_distinct(db) ==
    Returned(db, "tags",
        ListValue(entry_names_of(all(
            {r \in db.tags :
                r = first(filter_by_entry_name(db.tags, r.entry_name))}))))

get_all_tags(db) ==
    Returned(db, "tags", ListValue(entry_names_of(all(db.tags))))

StrValue(t) == [kind |-> "str", value |-> t]

\* the first piece of entry_location.split('/')
location_table(entry_location) == piece_name(split(entry_location, "/")[1])

\* a lookup that takes the row written last for the name
get_tag_location_last(db, entry_name) ==
    LET rows == filter_by_entry_name(db.tags, entry_name)
    IN  IF rows = {} THEN Caught(db, "no_tag", ListValue(<< >>))
        ELSE Returned(db, "found",
                 StrValue(location_table(
                     (CHOOSE r \in rows : r.id = Max(ids(rows))).entry_location)))

get_tag_location(db, entry_name) ==
    LET tag_entry == first(filter_by_entry_name(db.tags, entry_name))
    IN  IF tag_entry = NoRow
        THEN \* None.entry_location raises AttributeError: except returns []
             Caught(db, "no_tag", ListValue(<< >>))
        ELSE Returned(db, "found", StrValue(location_table(tag_entry.entry_location)))

\* filter(tag_table.entry_name.in_(tag_list)).all()
entry_name_in(rows, tag_list) == {r \in rows : r.entry_name \in Range(tag_list)}

RECURSIVE select(_, _)
select(rows, table_name) ==
    IF rows = << >> THEN << >>
    ELSE (IF location_table(Head(rows).entry_location) = table_name
          THEN <<Head(rows)>> ELSE << >>) \o select(Tail(rows), table_name)

\* a filter that never looks at the table name
filter_tag_list_by_table_unfiltered(db, tag_list, table_name) ==
    Returned(db, "all", ListValue(entry_names_of(all(entry_name_in(db.tags, tag_list)))))

\* the function has no try block: what its body raises reaches the caller
\* a filter that takes the word "all" for the option that shows every tag
filter_tag_list_by_table_all(db, tag_list, table_name) ==
    LET all_tags == all(entry_name_in(db.tags, tag_list))
    IN  IF table_name = "all"
        THEN Returned(db, "all", ListValue(entry_names_of(all_tags)))
        ELSE Returned(db, "filtered",
                 ListValue(entry_names_of(select(all_tags, table_name))))

filter_tag_list_by_table(db, tag_list, table_name) ==
    LET all_tags == all(entry_name_in(db.tags, tag_list))
    IN  IF table_name = "all_categories"
        THEN Returned(db, "all", ListValue(entry_names_of(all_tags)))
        ELSE Returned(db, "filtered",
                      ListValue(entry_names_of(select(all_tags, table_name))))

\* the tables Base.metadata.create_all creates, as the inspector lists
\* them: ordered by name
created_tables ==
    <<"characters", "cities", "continents", "countries", "deities", "enemies",
      "historical_events", "items", "planes", "quests", "regions", "religions",
      "tags", "world">>

RECURSIVE without(_, _)
without(names, excluded) ==
    IF names = << >> THEN << >>
    ELSE (IF Head(names) \in excluded THEN << >> ELSE <<Head(names)>>)
             \o without(Tail(names), excluded)

\* an exclusion list that names the tags table only
get_table_names_keeps_world(db, names) ==
    Returned(db, "names", ListValue(without(names, {"tags"})))

\* names is inspector.get_table_names()
get_table_names(db, names) ==
    Returned(db, "names", ListValue(without(names, excluded_tables)))

(***************************************************************************)
(* The arguments callers pass.                                             *)
(***************************************************************************)
\* the images the caller chooses as the world map
Images == {Str("png1"), Str("png2")}

\* data_dict of EditEntryFrame.save for one name: name, the text columns
\* and tags, image_data only when an image was chosen; and a dictionary
\* that carries no tags
DictsFor(name) ==
    { [name |-> name, description |-> Str("d1"), tags |-> <<"a", ",", "b", ",", "c">>],
      [name |-> name, description |-> Str("d2"), tags |-> << >>],
      [name |-> name, description |-> Str("d1"), tags |-> << >>,
       image_data |-> Str("png1")],
      [name |-> name, description |-> Str("d2")] }

DataDicts == UNION {DictsFor(n) : n \in Names}

\* the candidate labels of the tag filter and the option it is set to:
\* 'All Categories' gives all_categories, a category gives its table name
TagLists == {<<"a", "b">>, <<"b">>}
FilterOptions == {"all_categories", "all", "items"}

\* the tables of the database file: those create_all makes, and a file
\* that holds a table this schema does not know
TableLists == {created_tables, created_tables \o <<"zones">>}

(***************************************************************************)
(* The session: the database, the call made last and what it gave back.    *)
(***************************************************************************)
db == Database(tables, tags, world)

Call(op, args, out) ==
    [op |-> op, args |-> args, path |-> out.path, aborted |-> out.aborted,
     raised |-> out.raised, ret |-> out.ret]

Commit(out) ==
    /\ tables' = out.db.tables
    /\ tags' = out.db.tags
    /\ world' = out.db.world

\* create_database: the tables are created empty and the world row added
Init ==
    /\ tables = [c \in Categories |-> {}]
    /\ tags = {}
    /\ world = <<[name |-> WorldName, world_map |-> NULL]>>
    /\ lastCall = [op |-> "create_database", args |-> [name |-> WorldName],
                   path |-> "created", aborted |-> FALSE, raised |-> FALSE,
                   ret |-> NoneValue]
    /\ nops = 0

\* messagebox.askyesno is shown only when the entry exists
Answers(d, table_name, data_dict) ==
    IF /\ table_name \in Categories
       /\ filter_by_name(d.tables[table_name], data_dict["name"]) # {}
    THEN BOOLEAN ELSE {FALSE}

\* the names remove_entry is called with: the name of a record, and with
\* the table 'world' the name of the world
EntryNames(table_name) == IF table_name = "world" THEN {WorldName} ELSE Names

AddDataToTable ==
    /\ nops < MaxOps
    /\ \E table_name \in UsedTables, data_dict \in DataDicts :
       \E update_data \in Answers(db, table_name, data_dict) :
          LET out == add_data_to_table(db, table_name, data_dict, update_data)
          IN  /\ Commit(out)
              /\ lastCall' = Call("add_data_to_table",
                                  [table_name |-> table_name, data_dict |-> data_dict,
                                   update_data |-> update_data],
                                  out)
    /\ nops' = nops + 1

RemoveEntry ==
    /\ nops < MaxOps
    /\ \E table_name \in UsedTables \cup {"world"} :
       \E entry_name \in EntryNames(table_name) :
          LET out == remove_entry(db, table_name, entry_name)
          IN  /\ Commit(out)
              /\ lastCall' = Call("remove_entry",
                                  [table_name |-> table_name, entry_name |-> entry_name],
                                  out)
    /\ nops' = nops + 1

AddWorldMap ==
    /\ nops < MaxOps
    /\ \E image_data \in Images :
          LET out == add_world_map(db, image_data)
          IN  /\ Commit(out)
              /\ lastCall' = Call("add_world_map", [image_data |-> image_data], out)
    /\ nops' = nops + 1

GetEntryNames ==
    /\ nops < MaxOps
    /\ \E table_name \in UsedTables :
          LET out == get_entry_names(db, table_name)
          IN  /\ Commit(out)
              /\ lastCall' = Call("get_entry_names", [table_name |-> table_name], out)
    /\ nops' = nops + 1

GetDataForEntry ==
    /\ nops < MaxOps
    /\ \E entry_name \in Names :
          LET out == get_data_for_entry(db, entry_name)
          IN  /\ Commit(out)
              /\ lastCall' = Call("get_data_for_entry", [entry_name |-> entry_name], out)
    /\ nops' = nops + 1

VeiwWorldMap ==
    /\ nops < MaxOps
    /\ LET out == veiw_world_map(db)
       IN  /\ Commit(out)
           /\ lastCall' = Call("veiw_world_map", << >>, out)
    /\ nops' = nops + 1

GetAllTags ==
    /\ nops < MaxOps
    /\ LET out == get_all_tags(db)
       IN  /\ Commit(out)
           /\ lastCall' = Call("get_all_tags", << >>, out)
    /\ nops' = nops + 1

GetTagLocation ==
    /\ nops < MaxOps
    /\ \E entry_name \in Names :
          LET out == get_tag_location(db, entry_name)
          IN  /\ Commit(out)
              /\ lastCall' = Call("get_tag_location", [entry_name |-> entry_name], out)
    /\ nops' = nops + 1

FilterTagListByTable ==
    /\ nops < MaxOps
    /\ \E tag_list \in TagLists, table_name \in FilterOptions :
          LET out == filter_tag_list_by_table(db, tag_list, table_name)
          IN  /\ Commit(out)
              /\ lastCall' = Call("filter_tag_list_by_table",
                                  [tag_list |-> tag_list, table_name |-> table_name],
                                  out)
    /\ nops' = nops + 1

GetTableNames ==
    /\ nops < MaxOps
    /\ \E names \in TableLists :
          LET out == get_table_names(db, names)
          IN  /\ Commit(out)
              /\ lastCall' = Call("get_table_names", [names |-> names], out)
    /\ nops' = nops + 1

Next ==
    \/ AddDataToTable
    \/ RemoveEntry
    \/ AddWorldMap
    \/ GetEntryNames
    \/ GetDataForEntry
    \/ VeiwWorldMap
    \/ GetAllTags
    \/ GetTagLocation
    \/ FilterTagListByTable
    \/ GetTableNames

Spec == Init /\ [][Next]_vars

(***************************************************************************)
(* Properties.                                                             *)
(***************************************************************************)
IsCall(call, op) == call.op = op

\* the rows of category c that carry the name n
Named(t, c, n) == {r \in t[c] : r.name = n}

\* the stored row carries the value of every key of the dictionary that is
\* a column
AgreesWith(row, data_dict) ==
    \A k \in DOMAIN data_dict \cap DOMAIN row : row[k] = data_dict[k]

\* the tag rows whose entry_name is n
TagRowsOf(g, n) == {r \in g : r.entry_name = n}

\* the text <category>/<id>
LocationText(c, id) == <<c, "/">> \o str_int(id)

\* C1: every category table holds at most one record with any given name,
\* after any sequence of add_data_to_table and remove_entry calls.
C1_OneRecordPerName ==
    \A c \in Categories : \A r1, r2 \in tables[c] :
        r1.name = r2.name => r1 = r2

\* C1 witness: a second save under a name the category already holds took
\* the update path, and the name is still held once.
C1_Witness ==
    /\ IsCall(lastCall, "add_data_to_table")
    /\ lastCall.path = "update"
    /\ Cardinality(Named(tables, lastCall.args.table_name,
                         lastCall.args.data_dict["name"])) = 1
    /\ Cardinality(tables[lastCall.args.table_name]) = 2

\* C2 (as claimed): when the tag rows cannot be created after the record
\* was inserted, the insert is rolled back: the name is not among the names
\* get_entry_names lists and no tag row for it exists.
C2_InsertIsAtomic ==
    (IsCall(lastCall, "add_data_to_table") /\ lastCall.path = "insert_tags_failed")
        => LET c == lastCall.args.table_name
               n == lastCall.args.data_dict["name"]
           IN  /\ \A i \in DOMAIN get_entry_names(db, c).ret.value :
                      get_entry_names(db, c).ret.value[i] # n
               /\ TagRowsOf(tags, n) = {}

\* the record a tag row points at: the row of the named category whose id
\* is the number written after the slash
PointsAt(t, tag_row, c, r) ==
    /\ r \in t[c]
    /\ tag_row.entry_location = LocationText(c, r.id)

\* C3 (as claimed): in every reachable state each tag row's entry_location
\* is <category>/<id> with category a record category and id the id of a
\* record that currently exists in that category's table.
C3_TagRowsPointAtExistingRecords ==
    \A g \in tags : \E c \in Categories : \E r \in tables[c] :
        PointsAt(tables, g, c, r)

\* the text of entry_location is a record category, a slash and the decimal
\* text of a positive id
WellFormedLocation(loc) ==
    \E c \in Categories : \E id \in 1..(MaxOps + 1) : loc = LocationText(c, id)

\* C3 (amended): every tag row's entry_location is <category>/<id> with
\* category a record category and id a positive id, and every row points,
\* in the state in which it is created, at a record that exists and
\* carries the row's entry_name; remove_entry may leave it dangling later.
C3_TagRowsPointAtRecordWhenCreated ==
    /\ [](\A g \in tags : WellFormedLocation(g.entry_location))
    /\ [][\A g \in tags' \ tags :
            \E c \in Categories : \E r \in tables'[c] :
                PointsAt(tables', g, c, r) /\ r.name = g.entry_name]_vars

\* C3 witness: remove_entry deleted a record whose tag rows remain, so a
\* well-formed tag row points at no record.
C3_Witness ==
    /\ IsCall(lastCall, "remove_entry")
    /\ lastCall.path = "delete"
    /\ \E g \in TagRowsOf(tags, lastCall.args.entry_name) :
          /\ WellFormedLocation(g.entry_location)
          /\ ~ \E c \in Categories : \E r \in tables[c] : PointsAt(tables, g, c, r)

\* no row of any category carries the name n except the rows of category c
OnlyIn(t, c, n) == \A c2 \in Categories \ {c} : Named(t, c2, n) = {}

\* C4 (as claimed): after add_data_to_table inserted a record whose name no
\* other record uses and whose tags hold at least one label,
\* get_data_for_entry on that name returns the fields that were saved, in
\* any state reached by earlier saves and deletes.
C4_RoundTrip ==
    (/\ IsCall(lastCall, "add_data_to_table")
     /\ lastCall.path = "insert"
     /\ OnlyIn(tables, lastCall.args.table_name, lastCall.args.data_dict["name"])
     /\ lastCall.args.data_dict["tags"] # << >>)
        => LET got == get_data_for_entry(db, lastCall.args.data_dict["name"])
           IN  /\ ~got.raised
               /\ got.ret.kind = "dict"
               /\ AgreesWith(got.ret.value, lastCall.args.data_dict)
               /\ DOMAIN lastCall.args.data_dict \subseteq DOMAIN got.ret.value

\* C5: a save under a (category, name) that already exists, confirmed as an
\* overwrite, leaves exactly one record with that name in the category, the
\* record carries the fields of this call, and the tag table is as it was
\* before the call, whatever the tags string of the call.
C5_UpdateInPlace ==
    [][(IsCall(lastCall', "add_data_to_table") /\ lastCall'.path = "update")
          => LET c == lastCall'.args.table_name
                 d == lastCall'.args.data_dict
             IN  /\ Cardinality(Named(tables', c, d["name"])) = 1
                 /\ \A r \in Named(tables', c, d["name"]) : AgreesWith(r, d)
                 /\ Cardinality(tables'[c]) = Cardinality(tables[c])
                 /\ tags' = tags]_vars

\* C5 witness: an overwrite whose tags string differs from the stored one
\* was applied, and the record's tag rows are those of the first save.
C5_Witness ==
    /\ IsCall(lastCall, "add_data_to_table")
    /\ lastCall.path = "update"
    /\ "tags" \in DOMAIN lastCall.args.data_dict
    /\ lastCall.args.data_dict["tags"] = <<"a", ",", "b", ",", "c">>
    /\ \E r \in Named(tables, lastCall.args.table_name, lastCall.args.data_dict["name"]) :
          /\ r.tags = <<"a", ",", "b", ",", "c">>
          /\ r.description = Str("d1")
    /\ Cardinality(TagRowsOf(tags, lastCall.args.data_dict["name"])) = 1

\* the rows a step adds to the tags table and to category c
NewTagRows == tags' \ tags
NewRecords(c) == tables'[c] \ tables[c]

\* the step is a call of add_data_to_table that took the insert path to
\* its end with the tags string s
InsertedWithTags(s) ==
    /\ IsCall(lastCall', "add_data_to_table")
    /\ lastCall'.path = "insert"
    /\ lastCall'.args.data_dict["tags"] = s

\* the step added n tag rows and one record to category c, and every new
\* tag row carries the record's name and the text <c>/<id of the record>
FansOut(c, d, n) ==
    /\ tags \subseteq tags'
    /\ Cardinality(NewTagRows) = n
    /\ Cardinality(NewRecords(c)) = 1
    /\ \A g \in NewTagRows : \A r \in NewRecords(c) :
          /\ r.name = d["name"]
          /\ g.entry_name = d["name"]
          /\ g.entry_location = LocationText(c, r.id)

\* C6: inserting a new record with tags = "a,b,c" creates exactly 3 tag
\* rows, each with entry_name the record's own name and entry_location
\* <category>/<id> of the record just created.
C6_TagFanOut ==
    [][InsertedWithTags(<<"a", ",", "b", ",", "c">>)
          => FansOut(lastCall'.args.table_name, lastCall'.args.data_dict, 3)]_vars

\* C6 witness: a record saved with tags "a,b,c" into a category that
\* already held a record owns three tag rows.
C6_Witness ==
    /\ IsCall(lastCall, "add_data_to_table")
    /\ lastCall.path = "insert"
    /\ lastCall.args.data_dict["tags"] = <<"a", ",", "b", ",", "c">>
    /\ Cardinality(tables[lastCall.args.table_name]) = 2
    /\ Cardinality(TagRowsOf(tags, lastCall.args.data_dict["name"])) = 3

\* the tag row get_data_for_entry resolves n through points at no record
Dangling(n) ==
    /\ TagRowsOf(tags, n) # {}
    /\ ~ \E c \in Categories : \E r \in tables[c] :
            PointsAt(tables, first(TagRowsOf(tags, n)), c, r)

\* entry_location texts no insert writes: an unknown category, a missing id
ForeignLocations == {<<"bogus", "/", "1">>, <<"items", "/", "9">>}

\* C7: get_data_for_entry on a name whose tag row points at a record that
\* remove_entry deleted returns None and raises nothing; and so it does on
\* a tag row whose category is unknown or whose id is missing.
C7_DanglingIsAbsence ==
    /\ (IsCall(lastCall, "get_data_for_entry") /\ Dangling(lastCall.args.entry_name))
          => (lastCall.ret = NoneValue /\ ~lastCall.raised)
    /\ \A n \in Names : \A loc \in ForeignLocations :
          LET out == get_data_for_entry(
                         Database(tables, {tag_entry_row(1, n, loc)}, world), n)
          IN  out.ret = NoneValue /\ ~out.raised

\* C7 witness: get_data_for_entry was called on the name of a deleted
\* record whose tag row is still in the table, and returned None.
C7_Witness ==
    /\ IsCall(lastCall, "get_data_for_entry")
    /\ Dangling(lastCall.args.entry_name)
    /\ \A c \in Categories : Named(tables, c, lastCall.args.entry_name) = {}
    /\ lastCall.ret = NoneValue
    /\ ~lastCall.raised

\* C8 (as claimed): a record saved with an empty tags string owns no tag
\* row and get_data_for_entry on its name returns None.
C8_EmptyTagsUnresolvable ==
    (/\ IsCall(lastCall, "add_data_to_table")
     /\ lastCall.path = "insert"
     /\ lastCall.args.data_dict["tags"] = << >>)
        => /\ TagRowsOf(tags, lastCall.args.data_dict["name"]) = {}
           /\ get_data_for_entry(db, lastCall.args.data_dict["name"]).ret = NoneValue

\* C8 (amended): a record inserted with an empty tags string owns exactly
\* one tag row, with the record's name and its <category>/<id>, so the tag
\* lookup of get_data_for_entry on its name finds a row.
C8_EmptyTagsOneRow ==
    [][InsertedWithTags(<< >>)
          => /\ FansOut(lastCall'.args.table_name, lastCall'.args.data_dict, 1)
             /\ get_data_for_entry(Database(tables', tags', world'),
                                   lastCall'.args.data_dict["name"]).path # "no_tag"]_vars

\* C8 witness: a record saved with an empty tags string owns one tag row
\* and get_data_for_entry returns it.
C8_Witness ==
    /\ IsCall(lastCall, "add_data_to_table")
    /\ lastCall.path = "insert"
    /\ lastCall.args.data_dict["tags"] = << >>
    /\ Cardinality(TagRowsOf(tags, lastCall.args.data_dict["name"])) = 1
    /\ get_data_for_entry(db, lastCall.args.data_dict["name"]).ret.kind = "dict"

\* C9: add_data_to_table with a table name the registry does not hold
\* leaves every category table, the tags table and the world table as they
\* were.
C9_UnknownCategoryWritesNothing ==
    [][(/\ IsCall(lastCall', "add_data_to_table")
        /\ lastCall'.args.table_name \notin DOMAIN table_classes)
          => (tables' = tables /\ tags' = tags /\ world' = world)]_vars

\* C9 witness: add_data_to_table was called with an unregistered table
\* name on a database that holds records and tag rows.
C9_Witness ==
    /\ IsCall(lastCall, "add_data_to_table")
    /\ lastCall.args.table_name = "bogus"
    /\ lastCall.aborted
    /\ tags # {}
    /\ \E c \in Categories : tables[c] # {}

WriteOps == {"add_data_to_table", "remove_entry", "add_world_map"}

\* what the caller of a write that ran to its end receives: the call
\* returns None and raises nothing
SuccessOutcome(call) == ~call.raised /\ call.ret = NoneValue

\* C10 (as claimed): a write call that aborts on a failure hands its
\* caller an outcome that differs from the outcome of a successful call.
C10_FailureIsSurfaced ==
    (lastCall.op \in WriteOps /\ lastCall.aborted) => ~SuccessOutcome(lastCall)

\* the step is a call of add_data_to_table on a record category that
\* already holds a record of the dictionary's name
SavesExisting ==
    /\ IsCall(lastCall', "add_data_to_table")
    /\ lastCall'.args.table_name \in Categories
    /\ Named(tables, lastCall'.args.table_name, lastCall'.args.data_dict["name"]) # {}

\* C11: when add_data_to_table finds a record of the same name in the
\* category, the record is overwritten only if the caller confirms; when
\* the caller declines, no record field and no tag row changes.
C11_OverwriteOnlyWhenConfirmed ==
    [][(SavesExisting /\ ~lastCall'.args.update_data)
          => (tables' = tables /\ tags' = tags /\ world' = world)]_vars

\* C11 witness: a save under an existing name with other field values was
\* declined, and the stored record still differs from the dictionary.
C11_Witness ==
    /\ IsCall(lastCall, "add_data_to_table")
    /\ lastCall.path = "declined"
    /\ ~lastCall.args.update_data
    /\ \E r \in Named(tables, lastCall.args.table_name, lastCall.args.data_dict["name"]) :
          r.description # lastCall.args.data_dict["description"]

\* C12: on the update path exactly the keys of the dictionary are
\* overwritten on the existing record; every column the dictionary leaves
\* out keeps its value, and the id of the record does not change.
C12_UpdateWritesGivenKeysOnly ==
    [][(SavesExisting /\ lastCall'.args.update_data)
          => LET c == lastCall'.args.table_name
                 d == lastCall'.args.data_dict
             IN  \A old \in Named(tables, c, d["name"]) :
                    \E new \in tables'[c] :
                       /\ new.id = old.id
                       /\ tables'[c] = (tables[c] \ {old}) \cup {new}
                       /\ \A k \in DOMAIN old :
                             new[k] = IF k \in DOMAIN d THEN d[k] ELSE old[k]]_vars

\* C12 witness: a record that carries an image was overwritten by a save
\* that carried no image and another description: the image stayed, the
\* description changed.
C12_Witness ==
    /\ IsCall(lastCall, "add_data_to_table")
    /\ lastCall.path = "update"
    /\ "image_data" \notin DOMAIN lastCall.args.data_dict
    /\ lastCall.args.data_dict["description"] = Str("d2")
    /\ \E r \in Named(tables, "items", lastCall.args.data_dict["name"]) :
          /\ lastCall.args.table_name = "items"
          /\ r.image_data = Str("png1")
          /\ r.description = Str("d2")

\* the step is a call of remove_entry on a record category
Removes ==
    /\ IsCall(lastCall', "remove_entry")
    /\ lastCall'.args.table_name \in Categories

\* C13: remove_entry with a name no record of the category carries
\* returns normally and leaves every table as it was; with a name that is
\* present it removes exactly that record.
C13_DeleteByName ==
    [][Removes
          => LET c == lastCall'.args.table_name
                 n == lastCall'.args.entry_name
             IN  /\ SuccessOutcome(lastCall') /\ ~lastCall'.aborted
                 /\ tags' = tags /\ world' = world
                 /\ \A c2 \in Categories \ {c} : tables'[c2] = tables[c2]
                 /\ tables'[c] = tables[c] \ Named(tables, c, n)
                 /\ Cardinality(Named(tables, c, n)) <= 1]_vars

\* C13 witness: remove_entry took one of two records out of a category.
C13_Witness ==
    /\ IsCall(lastCall, "remove_entry")
    /\ lastCall.path = "delete"
    /\ lastCall.args.table_name \in Categories
    /\ Cardinality(tables[lastCall.args.table_name]) = 1
    /\ Named(tables, lastCall.args.table_name, lastCall.args.entry_name) = {}

\* C14: no call deletes or changes a tag row; remove_entry
\* leaves the tags table as it is even when rows point at the deleted
\* record, so the set of tag rows only grows.
C14_TagRowsOnlyGrow ==
    [][/\ tags \subseteq tags'
       /\ IsCall(lastCall', "remove_entry") => tags' = tags]_vars

\* C14 witness: remove_entry deleted a record that three tag rows point
\* at, and the three rows are still in the table.
C14_Witness ==
    /\ IsCall(lastCall, "remove_entry")
    /\ lastCall.path = "delete"
    /\ Cardinality({g \in tags :
          /\ g.entry_name = lastCall.args.entry_name
          /\ location_table(g.entry_location) = lastCall.args.table_name}) = 3
    /\ \A c \in Categories : Named(tables, c, lastCall.args.entry_name) = {}

\* how often x occurs in the sequence
Count(seq, x) == Cardinality({i \in DOMAIN seq : seq[i] = x})

\* the tag row's entry_location names category c
InCategory(g, c) ==
    \E id \in 1..(MaxOps + 1) : g.entry_location = LocationText(c, id)

\* the names of the list that have a tag row located in category c
LabelsIn(tag_list, c) ==
    {n \in Range(tag_list) : \E g \in TagRowsOf(tags, n) : InCategory(g, c)}

\* the last call is filter_tag_list_by_table with a record category
FiltersByCategory ==
    /\ IsCall(lastCall, "filter_tag_list_by_table")
    /\ lastCall.args.table_name \in Categories

\* C15 (as claimed): filter_tag_list_by_table with a category name returns
\* exactly the names of the list whose tag row is located in that category,
\* each once: for [x, y] with x in items and y in quests, "items" gives [x].
C15_FilterReturnsEachLabelOnce ==
    FiltersByCategory
        => LET got == lastCall.ret.value
               want == LabelsIn(lastCall.args.tag_list, lastCall.args.table_name)
           IN  /\ Range(got) = want
               /\ Len(got) = Cardinality(want)

\* C15 (amended): filter_tag_list_by_table with a category name returns one
\* element for every tag row whose entry_name is in the list and whose
\* entry_location names that category, so a name is repeated once per tag
\* row it owns there, and no other name is returned.
C15_FilterReturnsOnePerTagRow ==
    FiltersByCategory
        => \A n \in Names :
              Count(lastCall.ret.value, n) =
                 IF n \in Range(lastCall.args.tag_list)
                 THEN Cardinality({g \in TagRowsOf(tags, n) :
                                      InCategory(g, lastCall.args.table_name)})
                 ELSE 0

\* C15 witness: with a in items under three labels and b in quests, the
\* filter of [a, b] by "items" gave a three times and b not at all.
C15_Witness ==
    /\ FiltersByCategory
    /\ lastCall.args.tag_list = <<"a", "b">>
    /\ lastCall.args.table_name = "items"
    /\ Named(tables, "items", "a") # {}
    /\ Named(tables, "quests", "b") # {}
    /\ lastCall.ret.value = <<"a", "a", "a">>

\* the names of the list that have a tag row at all
Labelled(tag_list) == {n \in Range(tag_list) : TagRowsOf(tags, n) # {}}

\* C16 (as claimed): filter_tag_list_by_table with the category "all"
\* returns every name of the list that has a tag row, whatever category
\* its entry_location names.
C16_AllReturnsEveryLabel ==
    (IsCall(lastCall, "filter_tag_list_by_table") /\ lastCall.args.table_name = "all")
        => Range(lastCall.ret.value) = Labelled(lastCall.args.tag_list)

\* C16 (amended): the value that selects every category is
\* "all_categories", what the option 'All Categories' of the filter box
\* becomes: with it the call returns one element for every tag row whose
\* entry_name is in the list, whatever its entry_location; the word "all"
\* is compared with the category of each row like any other name and
\* matches none.
C16_AllCategoriesReturnsEveryLabel ==
    /\ (IsCall(lastCall, "filter_tag_list_by_table")
           /\ lastCall.args.table_name = "all_categories")
          => /\ Range(lastCall.ret.value) = Labelled(lastCall.args.tag_list)
             /\ \A n \in Range(lastCall.args.tag_list) :
                   Count(lastCall.ret.value, n) = Cardinality(TagRowsOf(tags, n))
    /\ (IsCall(lastCall, "filter_tag_list_by_table") /\ lastCall.args.table_name = "all")
          => lastCall.ret.value = << >>

\* C16 witness: with a in items and b in quests, the filter of [a, b] by
\* "all_categories" returned both names.
C16_Witness ==
    /\ IsCall(lastCall, "filter_tag_list_by_table")
    /\ lastCall.args.table_name = "all_categories"
    /\ lastCall.args.tag_list = <<"a", "b">>
    /\ \E g \in TagRowsOf(tags, "a") : InCategory(g, "items")
    /\ \E g \in TagRowsOf(tags, "b") : InCategory(g, "quests")
    /\ Range(lastCall.ret.value) = {"a", "b"}

\* C17 (as claimed): get_tag_location returns the category of the
\* entry_location of the tag row found for the name, and when there is no
\* such row it reports absence as get_data_for_entry does: the same None,
\* and no exception reaches the caller.
C17_LocationOfReportsAbsenceAsGetRecord ==
    IsCall(lastCall, "get_tag_location")
        => LET n == lastCall.args.entry_name
           IN  /\ ~lastCall.raised
               /\ TagRowsOf(tags, n) # {}
                     => /\ lastCall.ret.kind = "str"
                        /\ InCategory(first(TagRowsOf(tags, n)), lastCall.ret.value)
               /\ TagRowsOf(tags, n) = {}
                     => lastCall.ret = get_data_for_entry(db, n).ret

\* C18: get_all_tags returns one element per tag row, the row's entry_name,
\* without deduplication: a record inserted with k labels gives its name k
\* times, and the names of deleted records are still returned.
C18_AllTagsOnePerRow ==
    IsCall(lastCall, "get_all_tags")
        => /\ Len(lastCall.ret.value) = Cardinality(tags)
           /\ \A n \in Names :
                 Count(lastCall.ret.value, n) = Cardinality(TagRowsOf(tags, n))

\* C18 witness: get_all_tags returned three times the name of a record
\* that was saved with three labels and deleted since.
C18_Witness ==
    /\ IsCall(lastCall, "get_all_tags")
    /\ \E n \in Names :
          /\ Count(lastCall.ret.value, n) = 3
          /\ \A c \in Categories : Named(tables, c, n) = {}

\* C19: get_entry_names returns the name of every record the category
\* holds now, one per record, after any inserts and deletes, and an empty
\* list for a table name that is not registered.
C19_NamesOfStoredRecords ==
    IsCall(lastCall, "get_entry_names")
        => LET c == lastCall.args.table_name
               got == lastCall.ret.value
           IN  /\ ~lastCall.raised
               /\ c \in Categories
                     => /\ Len(got) = Cardinality(tables[c])
                        /\ Range(got) = {r.name : r \in tables[c]}
               /\ c \notin DOMAIN table_classes => got = << >>

\* C19 witness: of two records saved into a category one was deleted, and
\* get_entry_names lists the other alone.
C19_Witness ==
    /\ IsCall(lastCall, "get_entry_names")
    /\ lastCall.args.table_name \in Categories
    /\ Len(lastCall.ret.value) = 1
    /\ \E g \in tags :
          /\ InCategory(g, lastCall.args.table_name)
          /\ g.entry_name \notin Range(lastCall.ret.value)

\* C20: get_table_names never returns "world" or "tags", whatever tables
\* the database holds, and returns every other table name that is there.
C20_NoWorldNoTags ==
    IsCall(lastCall, "get_table_names")
        => /\ "world" \notin Range(lastCall.ret.value)
           /\ "tags" \notin Range(lastCall.ret.value)
           /\ Range(lastCall.args.names) \ {"world", "tags"}
                 \subseteq Range(lastCall.ret.value)
           /\ Range(lastCall.ret.value) \subseteq Range(lastCall.args.names)

\* C20 witness: the database holds the fourteen tables of the schema and
\* one more; get_table_names returned thirteen names, the other one among
\* them.
C20_Witness ==
    /\ IsCall(lastCall, "get_table_names")
    /\ Len(lastCall.args.names) = 15
    /\ Len(lastCall.ret.value) = 13
    /\ "zones" \in Range(lastCall.ret.value)
    /\ "items" \in Range(lastCall.ret.value)

\* the bytes value veiw_world_map hands to its caller
BytesValue(b) == [kind |-> "bytes", value |-> b]

\* C21: on a newly created world veiw_world_map returns None; after
\* add_world_map(b) it returns b, and a later add_world_map(b2) overwrites
\* the map, so that it returns b2.
C21_WorldMapRoundTrip ==
    /\ IsCall(lastCall, "create_database") => veiw_world_map(db).ret = NoneValue
    /\ (IsCall(lastCall, "add_world_map") /\ world # << >>)
          => veiw_world_map(db).ret = BytesValue(lastCall.args.image_data)
    /\ (IsCall(lastCall, "veiw_world_map") /\ world # << >>)
          => \/ lastCall.ret = NoneValue /\ world[1].world_map = NULL
             \/ lastCall.ret = BytesValue(world[1].world_map) /\ world[1].world_map \in Images

\* C21 witness: after at least two earlier calls veiw_world_map returned
\* the second image.
C21_Witness ==
    /\ IsCall(lastCall, "veiw_world_map")
    /\ nops >= 3
    /\ lastCall.ret = BytesValue(Str("png2"))

\* C22 (as claimed): under any sequence of calls the world table holds
\* exactly one row, the one create_database wrote: no call deletes it, adds
\* a second row or changes its name, and only add_world_map changes it.
C22_WorldSingleton ==
    /\ [](Len(world) = 1 /\ world[1].name = WorldName)
    /\ [][world' # world => IsCall(lastCall', "add_world_map")]_vars

\* C23 (as claimed): add_world_map and veiw_world_map called when the
\* world table holds no row fail loudly: the exception reaches the caller.
C23_NoWorldRowFailsLoudly ==
    (/\ IsCall(lastCall, "add_world_map") \/ IsCall(lastCall, "veiw_world_map")
     /\ world = << >>)
        => lastCall.raised

\* C24 (as claimed): whenever get_data_for_entry(name) returns a record,
\* the record's name is name, in every state reached by saves and deletes,
\* also after a record was deleted and others were inserted into the same
\* category: a stale tag row never resolves to another record.
C24_ReturnedRecordCarriesTheName ==
    (IsCall(lastCall, "get_data_for_entry") /\ lastCall.ret.kind = "dict")
        => lastCall.ret.value.name = lastCall.args.entry_name

\* the step inserts a record under the name and into the category of the
\* record that the call before it deleted
InsertsAfterDelete ==
    /\ IsCall(lastCall, "remove_entry")
    /\ lastCall.path = "delete"
    /\ lastCall.args.table_name \in Categories
    /\ IsCall(lastCall', "add_data_to_table")
    /\ lastCall'.path = "insert"
    /\ lastCall'.args.table_name = lastCall.args.table_name
    /\ lastCall'.args.data_dict["name"] = lastCall.args.entry_name

\* C25 (as claimed): after remove_entry(c, n) followed by a save into c
\* under the name n, get_data_for_entry(n) returns the record just
\* created, whether or not c holds other records.
C25_RecreatedRecordResolves ==
    [][InsertsAfterDelete
          => LET c == lastCall'.args.table_name
                 n == lastCall'.args.data_dict["name"]
                 got == get_data_for_entry(Database(tables', tags', world'), n)
             IN  /\ got.ret.kind = "dict"
                 /\ got.ret.value \in tables'[c] \ tables[c]]_vars

\* C26 (as claimed): for every category c and every name get_entry_names(c)
\* lists, get_data_for_entry on that name returns the record stored in c
\* under the name, also when another category holds a record of that name.
C26_ListedNameLoadsItsRecord ==
    \A c \in Categories :
        LET names == get_entry_names(db, c).ret.value
        IN  \A i \in DOMAIN names :
               LET got == get_data_for_entry(db, names[i])
               IN  /\ got.ret.kind = "dict"
                   /\ got.ret.value \in Named(tables, c, names[i])

\* C27: in every state and for every name, when get_data_for_entry returns
\* a record, get_tag_location returns the category whose table holds that
\* record: both go through the same tag row.
C27_LocationIsWhereTheRecordIs ==
    \A n \in Names :
        LET got == get_data_for_entry(db, n)
            loc == get_tag_location(db, n)
        IN  got.ret.kind = "dict"
               => /\ loc.ret.kind = "str"
                  /\ loc.ret.value \in Categories
                  /\ got.ret.value \in tables[loc.ret.value]
                  /\ InCategory(first(TagRowsOf(tags, n)), loc.ret.value)

\* C27 witness: a name is stored in two categories; get_tag_location
\* answered with the category of the record get_data_for_entry returns.
C27_Witness ==
    /\ IsCall(lastCall, "get_tag_location")
    /\ lastCall.ret.kind = "str"
    /\ Cardinality({c \in Categories :
                       Named(tables, c, lastCall.args.entry_name) # {}}) = 2
    /\ get_data_for_entry(db, lastCall.args.entry_name).ret.value
          \in tables[lastCall.ret.value]

\* the number of commas in the tags string
Commas(s) == Cardinality({i \in DOMAIN s : s[i] = ","})

\* the step is a call of add_data_to_table that took the insert path to
\* its end
Inserted ==
    /\ IsCall(lastCall', "add_data_to_table")
    /\ lastCall'.path = "insert"

\* C28: an insert whose tags string holds k commas creates exactly k+1 tag
\* rows, an empty tags string exactly one, so that every record inserted
\* to the end owns at least one tag row.
C28_OneTagRowPerPiece ==
    /\ [][Inserted
            => /\ tags \subseteq tags'
               /\ Cardinality(tags' \ tags) = Commas(lastCall'.args.data_dict["tags"]) + 1
               /\ \A g \in tags' \ tags :
                     g.entry_name = lastCall'.args.data_dict["name"]]_vars
    /\ []((IsCall(lastCall, "add_data_to_table") /\ lastCall.path = "insert")
            => TagRowsOf(tags, lastCall.args.data_dict["name"]) # {})

\* C28 witness: a record inserted with an empty tags string into a
\* database that held three tag rows: there are four now.
C28_Witness ==
    /\ IsCall(lastCall, "add_data_to_table")
    /\ lastCall.path = "insert"
    /\ Commas(lastCall.args.data_dict["tags"]) = 0
    /\ Cardinality(tags) = 4
    /\ \E n \in Names : Cardinality(TagRowsOf(tags, n)) = 1

\* C29 (as claimed): add_data_to_table and remove_entry on category c with
\* name n leave every record of every other category and every record of
\* c with another name as they were, and the world row as well.
C29_OtherRecordsUntouched ==
    [][(IsCall(lastCall', "add_data_to_table") \/ IsCall(lastCall', "remove_entry"))
          => LET c == lastCall'.args.table_name
                 n == IF IsCall(lastCall', "remove_entry")
                      THEN lastCall'.args.entry_name
                      ELSE lastCall'.args.data_dict["name"]
             IN  /\ \A c2 \in Categories :
                       {r \in tables'[c2] : c2 # c \/ r.name # n}
                          = {r \in tables[c2] : c2 # c \/ r.name # n}
                 /\ world' = world]_vars

\* C30: on the insert path the id written into the entry_location of the
\* new tag rows, the greatest id of the table read back after the commit,
\* is the id of the record just inserted, after any inserts and deletes.
C30_LastIdIsTheNewRecord ==
    [][Inserted
          => LET c == lastCall'.args.table_name
             IN  /\ Cardinality(tables'[c] \ tables[c]) = 1
                 /\ tags' # tags
                 /\ \A g \in tags' \ tags : \A r \in tables'[c] \ tables[c] :
                       /\ g.entry_location = LocationText(c, r.id)
                       /\ r.name = lastCall'.args.data_dict["name"]
                       /\ r.id = Max(ids(tables'[c]))]_vars

\* C30 witness: a record was inserted after a delete left a gap below the
\* greatest id of its table, and its tag row carries its own id.
C30_Witness ==
    /\ IsCall(lastCall, "add_data_to_table")
    /\ lastCall.path = "insert"
    /\ \E r \in Named(tables, lastCall.args.table_name, lastCall.args.data_dict["name"]) :
          /\ r.id = 3
          /\ ids(tables[lastCall.args.table_name]) = {2, 3}
          /\ \E g \in tags :
                g.entry_location = LocationText(lastCall.args.table_name, 3)

====
